---- MODULE Spec2Model ----
(***************************************************************************)
(* velgardey/perlin-noise: the PerlinNoise class of src/main.js (seeded    *)
(* permutation / gradient tables, single-octave noise2D, fractal           *)
(* perlin2D) and the PerlinVisualizer that owns one field (sliders,        *)
(* debounce and resize timers, generate, the water-level test of draw,     *)
(* the grid reads of draw, the face colours of an isometric tile).         *)
(*                                                                         *)
(* Numbers.  JavaScript numbers are IEEE doubles; TLC integers are 32-bit. *)
(*  - A seed argument v is the record [hi, lo, frac] standing for the real *)
(*    hi * 2^31 + lo + frac / 65536, with frac in 0..65535.  Math.floor(v) *)
(*    is hi * 2^31 + lo, and for 0 < v < 1 the product v * 65536 is frac.  *)
(*  - The running seed of the shuffle is a record [hi, lo]; after the      *)
(*    first LCG step hi = 0 and |lo| < 2147483647.                         *)
(*  - seed * 16807 is below 2^53 for every seed the model draws, so the    *)
(*    double product is exact and (seed * 16807) % 2147483647 is the       *)
(*    truncated integer remainder; MulDivMod computes it in 32-bit steps.  *)
(*  - Math.floor((seed / 2147483647) * (i + 1)): seed * (i + 1) is never a *)
(*    multiple of the prime modulus unless seed = 0, so the exact quotient *)
(*    is at least 1 / 2147483647 away from an integer while the two        *)
(*    roundings err by less than 256 * 2^-52: the floor of the double is   *)
(*    the floor of the exact quotient.                                     *)
(*  - Coordinates are dyadic rationals n / Den; samples are exact          *)
(*    rationals [num, den] (floating-point rounding is not modelled).      *)
(***************************************************************************)
EXTENDS Integers, Sequences, FiniteSets, TLC

VARIABLES perm, gradP, grad3, seedArg, first, reseeded, ret, vis, shuffle

vars == <<perm, gradP, grad3, seedArg, first, reseeded, ret, vis, shuffle>>

(***************************************************************************)
(* Program constants                                                       *)
(***************************************************************************)
TableSize == 512
HalfSize == 256
LcgMultiplier == 16807
LcgModulus == 2147483647
PaletteSize == 8

\* the value of a missing array slot / property (JavaScript undefined)
Undefined == 0 - 1
\* gradP slot holding undefined instead of a vector
UndefinedVec == <<>>

\* this.grad3, indexed from 0 as in the source
Grad3Palette ==
    [k \in 0..7 |->
        CASE k = 0 -> <<1, 1>>   [] k = 1 -> <<-1, 1>>
          [] k = 2 -> <<1, -1>>  [] k = 3 -> <<-1, -1>>
          [] k = 4 -> <<1, 0>>   [] k = 5 -> <<-1, 0>>
          [] k = 6 -> <<0, 1>>   [] k = 7 -> <<0, -1>>]

(***************************************************************************)
(* Integer helpers                                                         *)
(***************************************************************************)
Abs(n) == IF n < 0 THEN 0 - n ELSE n

\* (a + b) mod LcgModulus for 0 <= a, b < LcgModulus, without passing 2^31
AddMod(a, b) == IF a >= LcgModulus - b THEN a - (LcgModulus - b) ELSE a + b

\* <<q, r>> with s * n = q * LcgModulus + r, 0 <= r < LcgModulus,
\* for 0 <= s < LcgModulus and n >= 0 (binary long multiplication)
RECURSIVE MulDivMod(_, _)
MulDivMod(s, n) ==
    IF n = 0 THEN <<0, 0>>
    ELSE LET h == MulDivMod(s, n \div 2)
             dq == 2 * h[1] + (IF h[2] >= LcgModulus - h[2] THEN 1 ELSE 0)
             dr == AddMod(h[2], h[2])
         IN  IF n % 2 = 0 THEN <<dq, dr>>
             ELSE <<dq + (IF dr >= LcgModulus - s THEN 1 ELSE 0), AddMod(dr, s)>>

\* a | b on two's-complement integers (no bit above 2^31 is ever set here)
RECURSIVE BitOr(_, _)
BitOr(a, b) ==
    IF a = 0 THEN b
    ELSE IF b = 0 THEN a
    ELSE IF a = 0 - 1 \/ b = 0 - 1 THEN 0 - 1
    ELSE (IF a % 2 = 1 \/ b % 2 = 1 THEN 1 ELSE 0) + 2 * BitOr(a \div 2, b \div 2)

\* a mask that keeps the sign of a negative operand, as the remainder does
And255_Signed(n) == IF n >= 0 THEN n % HalfSize ELSE 0 - ((0 - n) % HalfSize)

\* n & 255 on a two's-complement integer
And255(n) == n % HalfSize

(***************************************************************************)
(* Numbers returned by the sampling functions: exact rationals n / d in    *)
(* lowest terms with d > 0, or what JavaScript gives where there is no     *)
(* number (0 / 0 is NaN, a / 0 is an infinity), or the TypeError thrown    *)
(* when a property of undefined is read.                                   *)
(***************************************************************************)
RECURSIVE Gcd(_, _)
Gcd(a, b) == IF b = 0 THEN a ELSE Gcd(b, a % b)

NaN == [k |-> "NaN", n |-> 0, d |-> 0]
Infinity(sign) == [k |-> "Infinity", n |-> sign, d |-> 0]
TypeError == [k |-> "TypeError", n |-> 0, d |-> 0]

Sign(n) == IF n < 0 THEN 0 - 1 ELSE IF n > 0 THEN 1 ELSE 0

\* the number n / d
Rat(n, d) ==
    IF d = 0 THEN (IF n = 0 THEN NaN ELSE Infinity(Sign(n)))
    ELSE LET g == Gcd(Abs(n), Abs(d))
         IN  [k |-> "num", n |-> Sign(d) * (n \div g), d |-> Abs(d) \div g]

IntNum(n) == [k |-> "num", n |-> n, d |-> 1]

IsNumber(a) == a.k = "num"

\* a + b, a - b, a * b, a / b on numbers (over the least common denominator,
\* and cross-reduced, so that no intermediate passes 2^31)
RatAdd(a, b) ==
    LET g == Gcd(a.d, b.d)
    IN  Rat(a.n * (b.d \div g) + b.n * (a.d \div g), (a.d \div g) * b.d)

RatNeg(a) == [a EXCEPT !.n = 0 - a.n]

RatSub(a, b) == RatAdd(a, RatNeg(b))

RatMul(a, b) ==
    LET g1 == Gcd(Abs(a.n), b.d)
        g2 == Gcd(Abs(b.n), a.d)
    IN  Rat((a.n \div g1) * (b.n \div g2), (a.d \div g2) * (b.d \div g1))

RatDiv(a, b) ==
    IF b.n = 0 THEN Rat(a.n, 0)
    ELSE RatMul(a, [k |-> "num", n |-> Sign(b.n) * b.d, d |-> Abs(b.n)])

RatLeq(a, b) == a.n * b.d <= b.n * a.d

\* Math.floor(a)
RatFloor(a) == a.n \div a.d

(***************************************************************************)
(* seed(): normalisation, lines 25-33                                      *)
(***************************************************************************)
\* if (seed > 0 && seed < 1) seed *= 65536;  seed = Math.floor(seed)
ScaleAndFloor(v) ==
    IF v.hi = 0 /\ v.lo = 0 /\ v.frac > 0
    THEN [hi |-> 0, lo |-> v.frac]
    ELSE [hi |-> v.hi, lo |-> v.lo]

\* a seed() without the fold step
Fold_Skipped(n) == n

\* if (seed < 256) seed |= seed << 8      (seed << 8 is seed * 256: the
\* model's seeds below 256 are above -2^23, so no bit is shifted out)
Fold(n) ==
    IF n.hi = 0 /\ n.lo < HalfSize
    THEN [hi |-> 0, lo |-> BitOr(n.lo, n.lo * HalfSize)]
    ELSE n

NormalizeSeed(v) == Fold(ScaleAndFloor(v))

(***************************************************************************)
(* seed(): the shuffle, lines 35-51                                        *)
(***************************************************************************)
\* seed = (seed * 16807) % 2147483647   (% keeps the sign of the dividend;
\* 2^31 = 1 modulo the modulus, so hi * 2^31 + lo reduces to hi + lo)
LcgNext(s) ==
    LET neg == s.hi = 0 /\ s.lo < 0
        m == IF neg THEN Abs(s.lo) % LcgModulus
             ELSE AddMod(s.hi % LcgModulus, s.lo % LcgModulus)
        r == MulDivMod(m, LcgMultiplier)[2]
    IN  [hi |-> 0, lo |-> IF neg THEN 0 - r ELSE r]

\* a pick over the whole table at every step: floor((seed / 2147483647) * 256)
PickIndex_Unscaled(s, i) ==
    LET qr == MulDivMod(Abs(s.lo), HalfSize)
    IN  IF s.lo >= 0 THEN qr[1]
        ELSE IF qr[2] = 0 THEN 0 - qr[1] ELSE 0 - (qr[1] + 1)

\* const r = Math.floor((seed / 2147483647) * (i + 1)), for |seed| < modulus
PickIndex(s, i) ==
    LET qr == MulDivMod(Abs(s.lo), i + 1)
    IN  IF s.lo >= 0 THEN qr[1]
        ELSE IF qr[2] = 0 THEN 0 - qr[1] ELSE 0 - (qr[1] + 1)

\* const p = new Array(256); p[i] = i.  The domain also holds the negative
\* property keys a negative pick index reads and creates.
IdentityP == [i \in (0 - HalfSize)..(HalfSize - 1) |-> IF i >= 0 THEN i ELSE Undefined]

\* temp = p[i]; p[i] = p[r]; p[r] = temp
Swap(p, i, r) == [p EXCEPT ![i] = p[r], ![r] = p[i]]

\* one iteration of the loop body, lines 44-50, on the pair [p, seed]
ShuffleStep(st, i) ==
    LET s2 == LcgNext(st.seed)
    IN  [p |-> Swap(st.p, i, PickIndex(s2, i)), seed |-> s2]

\* the iterations i = from, from - 1, ..., to of for (let i = 255; i > 0; i--),
\* in order.  The range is halved and the first half is evaluated (the test
\* on its running seed, which always holds after an LCG step) before the
\* second half starts, so that the evaluation stays shallow.
RECURSIVE ShuffleLoop(_, _, _)
ShuffleLoop(st, from, to) ==
    IF from < to THEN st
    ELSE IF from = to THEN ShuffleStep(st, from)
    ELSE LET mid == (from + to) \div 2
             half == ShuffleLoop(st, from, mid + 1)
         IN  IF half.seed.hi = 0 THEN ShuffleLoop(half, mid, to) ELSE half

\* p after the shuffle, for seed argument v
ShuffledP(v) ==
    ShuffleLoop([p |-> IdentityP, seed |-> NormalizeSeed(v)], HalfSize - 1, 1).p

(***************************************************************************)
(* seed(): writing the tables, lines 53-58                                 *)
(***************************************************************************)
\* this.grad3[p[i] % 8]: undefined % 8 is NaN and grad3[NaN] is undefined
GradOf(palette, value) ==
    IF value = Undefined THEN UndefinedVec ELSE palette[value % PaletteSize]

\* a write loop that fills the low half only
WritePerm_LowHalf(old, p) ==
    [i \in 0..(TableSize - 1) |-> IF i < HalfSize THEN p[i] ELSE old[i]]

\* a seed() that shuffles the table already present (when there is one)
\* instead of a fresh identity sequence
WritePerm_InPlace(old, p) ==
    [i \in 0..(TableSize - 1) |->
        LET k == p[i % HalfSize]
        IN  IF k = Undefined \/ old[k] = Undefined THEN k ELSE old[k]]

\* this.perm[i] = this.perm[i + 256] = p[i], for i = 0..255
WritePerm(old, p) == [i \in 0..(TableSize - 1) |-> p[i % HalfSize]]

\* this.gradP[i] = this.gradP[i + 256] = this.grad3[p[i] % 8], for i = 0..255
WriteGradP(old, palette, p) ==
    [i \in 0..(TableSize - 1) |-> GradOf(palette, p[i % HalfSize])]

(***************************************************************************)
(* Sampling, lines 61-134.  tp and tg are this.perm and this.gradP.        *)
(***************************************************************************)
\* an interpolation that forgets the weight of a: a + t * b
lerp_Unweighted(a, b, t) == RatAdd(a, RatMul(t, b))

\* lerp(a, b, t), line 63
lerp(a, b, t) == RatAdd(RatMul(RatSub(IntNum(1), t), a), RatMul(t, b))

\* fade(t), line 69
fade(t) ==
    RatMul(RatMul(RatMul(t, t), t),
           RatAdd(RatMul(t, RatSub(RatMul(t, IntNum(6)), IntNum(15))), IntNum(10)))

\* an array read table[index]: undefined outside the array, and at an index
\* that is itself undefined + n (NaN)
ReadSlot(table, index, missing) ==
    IF index \in DOMAIN table THEN table[index] ELSE missing

\* undefined + n is NaN, which reads no slot
PlusIndex(value, n) == IF value = Undefined THEN Undefined ELSE value + n

\* hash & 255 (undefined & 255 is 0)
HashIndex(hash) == IF hash = Undefined THEN 0 ELSE And255(hash)

\* grad(hash, x, y), lines 73-78: g[0] of an undefined g throws
grad(tg, hash, x, y) ==
    LET g == ReadSlot(tg, HashIndex(hash), UndefinedVec)
    IN  IF g = UndefinedVec THEN TypeError
        ELSE RatAdd(RatMul(IntNum(g[1]), x), RatMul(IntNum(g[2]), y))

\* a blend that weighs the y direction with u and the x direction with v
noise2DInCell_SwappedWeights(tp, tg, X, Y, x, y) ==
    LET u == fade(x)
        v == fade(y)
        aa == PlusIndex(ReadSlot(tp, X, Undefined), Y)
        ab == PlusIndex(ReadSlot(tp, X, Undefined), Y + 1)
        ba == PlusIndex(ReadSlot(tp, X + 1, Undefined), Y)
        bb == PlusIndex(ReadSlot(tp, X + 1, Undefined), Y + 1)
        g00 == grad(tg, ReadSlot(tp, aa, Undefined), x, y)
        g01 == grad(tg, ReadSlot(tp, ab, Undefined), x, RatSub(y, IntNum(1)))
        g10 == grad(tg, ReadSlot(tp, ba, Undefined), RatSub(x, IntNum(1)), y)
        g11 == grad(tg, ReadSlot(tp, bb, Undefined), RatSub(x, IntNum(1)),
                    RatSub(y, IntNum(1)))
    IN  IF TypeError \in {g00, g01, g10, g11} THEN TypeError
        ELSE lerp(lerp(g00, g01, u), lerp(g10, g11, u), v)

\* noise2D from line 87 on: the sample in lattice cell (X, Y) at the
\* position (x, y) relative to the cell's corner
noise2DInCell(tp, tg, X, Y, x, y) ==
    LET u == fade(x)
        v == fade(y)
        aa == PlusIndex(ReadSlot(tp, X, Undefined), Y)
        ab == PlusIndex(ReadSlot(tp, X, Undefined), Y + 1)
        ba == PlusIndex(ReadSlot(tp, X + 1, Undefined), Y)
        bb == PlusIndex(ReadSlot(tp, X + 1, Undefined), Y + 1)
        g00 == grad(tg, ReadSlot(tp, aa, Undefined), x, y)
        g01 == grad(tg, ReadSlot(tp, ab, Undefined), x, RatSub(y, IntNum(1)))
        g10 == grad(tg, ReadSlot(tp, ba, Undefined), RatSub(x, IntNum(1)), y)
        g11 == grad(tg, ReadSlot(tp, bb, Undefined), RatSub(x, IntNum(1)),
                    RatSub(y, IntNum(1)))
    IN  IF TypeError \in {g00, g01, g10, g11} THEN TypeError
        ELSE lerp(lerp(g00, g01, v), lerp(g10, g11, v), u)

\* a cell index that is the floor alone, without the mask
CellIndex_Unmasked(c) == RatFloor(c)

\* Math.floor(c) & 255, lines 83-84
CellIndex(c) == And255(RatFloor(c))

\* the indices at which noise2D reads this.perm in cell (X, Y), lines 93-101:
\* X, X + 1, aa, ab, ba, bb
PermIndices(tp, X, Y) ==
    <<X, X + 1,
      PlusIndex(ReadSlot(tp, X, Undefined), Y),
      PlusIndex(ReadSlot(tp, X, Undefined), Y + 1),
      PlusIndex(ReadSlot(tp, X + 1, Undefined), Y),
      PlusIndex(ReadSlot(tp, X + 1, Undefined), Y + 1)>>

\* noise2D(x, y), lines 81-115
noise2D(tp, tg, x0, y0) ==
    noise2DInCell(tp, tg, CellIndex(x0), CellIndex(y0),
                  RatSub(x0, IntNum(RatFloor(x0))), RatSub(y0, IntNum(RatFloor(y0))))

\* the loop of perlin2D, lines 125-130, from iteration i on the record
\* [total, frequency, amplitude, maxValue]; a throwing noise2D ends the call
RECURSIVE OctaveLoop(_, _, _, _, _, _, _, _, _)
OctaveLoop(tp, tg, x, y, octaves, persistence, lacunarity, i, acc) ==
    IF ~(i < octaves) THEN acc
    ELSE LET sample == noise2D(tp, tg, RatMul(x, acc.frequency), RatMul(y, acc.frequency))
         IN  IF sample = TypeError THEN [acc EXCEPT !.total = TypeError]
             ELSE OctaveLoop(tp, tg, x, y, octaves, persistence, lacunarity, i + 1,
                    [total |-> RatAdd(acc.total, RatMul(sample, acc.amplitude)),
                     maxValue |-> RatAdd(acc.maxValue, acc.amplitude),
                     amplitude |-> RatMul(acc.amplitude, persistence),
                     frequency |-> RatMul(acc.frequency, lacunarity)])

\* a fractal sum that substitutes 0 when the normalisation sum is zero
perlin2D_ZeroGuard(tp, tg, x, y, octaves, persistence, lacunarity) ==
    LET acc == OctaveLoop(tp, tg, x, y, octaves, persistence, lacunarity, 0,
                   [total |-> IntNum(0), frequency |-> IntNum(1),
                    amplitude |-> IntNum(1), maxValue |-> IntNum(0)])
    IN  IF acc.total = TypeError THEN TypeError
        ELSE IF acc.maxValue = IntNum(0) THEN IntNum(0)
        ELSE RatDiv(acc.total, acc.maxValue)

\* a fractal sum whose first octave already has frequency = lacunarity
perlin2D_FrequencyFirst(tp, tg, x, y, octaves, persistence, lacunarity) ==
    LET acc == OctaveLoop(tp, tg, x, y, octaves, persistence, lacunarity, 0,
                   [total |-> IntNum(0), frequency |-> lacunarity,
                    amplitude |-> IntNum(1), maxValue |-> IntNum(0)])
    IN  IF acc.total = TypeError THEN TypeError
        ELSE RatDiv(acc.total, acc.maxValue)

\* a fractal sum that returns the total without dividing by the amplitudes
perlin2D_Unnormalized(tp, tg, x, y, octaves, persistence, lacunarity) ==
    LET acc == OctaveLoop(tp, tg, x, y, octaves, persistence, lacunarity, 0,
                   [total |-> IntNum(0), frequency |-> IntNum(1),
                    amplitude |-> IntNum(1), maxValue |-> IntNum(0)])
    IN  acc.total

\* perlin2D(x, y, octaves, persistence, lacunarity), lines 118-134
perlin2D(tp, tg, x, y, octaves, persistence, lacunarity) ==
    LET acc == OctaveLoop(tp, tg, x, y, octaves, persistence, lacunarity, 0,
                   [total |-> IntNum(0), frequency |-> IntNum(1),
                    amplitude |-> IntNum(1), maxValue |-> IntNum(0)])
    IN  IF acc.total = TypeError THEN TypeError
        ELSE RatDiv(acc.total, acc.maxValue)

(***************************************************************************)
(* Inputs                                                                  *)
(***************************************************************************)
SeedValue(h, l, f) == [hi |-> h, lo |-> l, frac |-> f]

\* values Math.random() returns at construction (0 <= v < 1): 0 and 0.618...
RandomValues == {SeedValue(0, 0, 0), SeedValue(0, 0, 40503)}

\* further values of Math.random(), for the sampling specification
SampleRandomValues ==
    RandomValues \cup {SeedValue(0, 0, 1), SeedValue(0, 0, 501),
                       SeedValue(0, 0, 32768), SeedValue(0, 0, 65535)}

\* arguments of explicit seed() calls: 0.5, 32768, 12345.7, 12345, 255, 65535,
\* 0, 2^31 - 1, 3 * 2^31 + 12345, -1, -300.5
SeedValues ==
    { SeedValue(0, 0, 32768), SeedValue(0, 32768, 0), SeedValue(0, 12345, 45875),
      SeedValue(0, 12345, 0), SeedValue(0, 255, 0), SeedValue(0, 65535, 0),
      SeedValue(0, 0, 0),
      SeedValue(0, 2147483647, 0), SeedValue(3, 12345, 0),
      SeedValue(0, 0 - 1, 0), SeedValue(0, 0 - 301, 32768) }

\* the seed values of the two-field specification
PairSeedValues ==
    {SeedValue(0, 12345, 0), SeedValue(0, 0, 32768), SeedValue(0, 0 - 1, 0)}

AllSeedValues == SampleRandomValues \cup SeedValues \cup PairSeedValues

\* the shuffled sequence of every seed argument the model draws, computed once
ShuffledTable == [v \in AllSeedValues |-> ShuffledP(v)]

Fields == {1, 2}
Primary == 1

\* Coordinates are the rationals n / 2^FracBits between -1 and MaxCoord
FracBits == 1
MaxCoord == 2
MaxOctaves == 3

RECURSIVE Pow2(_)
Pow2(n) == IF n = 0 THEN 1 ELSE 2 * Pow2(n - 1)

Den == Pow2(FracBits)
Coords == {Rat(n, Den) : n \in (0 - Den)..(MaxCoord * Den)}

\* the points of fractal samples: the diagonal and the line next to it
PerlinPoints ==
    {pt \in Coords \X Coords : RatSub(pt[2], pt[1]) \in {IntNum(0), Rat(1, Den)}}
Octaves == 0..MaxOctaves
Persistences == {Rat(n, 2) : n \in {0 - 2, 0 - 1, 0, 1, 2, 4}}
Lacunarities == {IntNum(n) : n \in {0 - 1, 0, 1, 2, 3}}

\* the few sample calls of the seeding specifications
SpotCoords == {Rat(1, 2), Rat(3, 2)}
SpotOctaves == {1, 2}
SpotPersistences == {Rat(0 - 1, 2), Rat(1, 2)}
SpotLacunarities == {IntNum(2)}

NoCall == [op |-> "none"]
NoSnapshot == [arg |-> "none"]

(***************************************************************************)
(* State                                                                   *)
(*   perm, gradP, grad3 : the three tables of each PerlinNoise object      *)
(*   seedArg            : the argument of the last seed() on each object   *)
(*   first              : argument and tables of the first explicit seed() *)
(*   reseeded           : a different value was seeded after the first     *)
(*   ret                : the sample call that has just returned (or       *)
(*                        thrown), until its caller takes the value        *)
(*   vis                : the PerlinVisualizer that owns field Primary     *)
(*                        (NoVisualizer where the field is used directly)  *)
(***************************************************************************)
NoVisualizer == [pc |-> "none"]

\* no seed() call is observed step by step
NoShuffle == [pc |-> "none"]

\* constructor, lines 9-21, with Math.random() returning rnd[f] for field f:
\* empty 512-slot arrays, the palette, seed(Math.random())
FieldsConstructed(rnd) ==
    /\ seedArg = rnd
    /\ perm = [f \in Fields |->
                 WritePerm([i \in 0..(TableSize - 1) |-> Undefined],
                           ShuffledTable[rnd[f]])]
    /\ gradP = [f \in Fields |->
                 WriteGradP([i \in 0..(TableSize - 1) |-> UndefinedVec],
                            Grad3Palette, ShuffledTable[rnd[f]])]
    /\ grad3 = [f \in Fields |-> Grad3Palette]
    /\ first = [f \in Fields |-> NoSnapshot]
    /\ reseeded = [f \in Fields |-> FALSE]
    /\ ret = NoCall

\* fields constructed and used directly, without a visualizer
Constructed(rnd) ==
    /\ FieldsConstructed(rnd)
    /\ vis = NoVisualizer
    /\ shuffle = NoShuffle

Init == \E rnd \in [Fields -> RandomValues] : Constructed(rnd)

\* the sampled field constructed with any value, the other field with 0
InitSample ==
    \E r \in SampleRandomValues :
        Constructed([f \in Fields |-> IF f = Primary THEN r ELSE SeedValue(0, 0, 0)])

\* seed(seed), lines 24-59
Seed(self, v) ==
    LET p == ShuffledTable[v]
    IN  /\ ret = NoCall
        /\ perm' = [perm EXCEPT ![self] = WritePerm(perm[self], p)]
        /\ gradP' = [gradP EXCEPT ![self] = WriteGradP(gradP[self], grad3[self], p)]
        /\ seedArg' = [seedArg EXCEPT ![self] = v]
        /\ first' = IF first[self] = NoSnapshot
                    THEN [first EXCEPT ![self] =
                            [arg |-> v, perm |-> perm'[self], gradP |-> gradP'[self]]]
                    ELSE first
        /\ reseeded' = IF first[self] # NoSnapshot /\ first[self].arg # v
                       THEN [reseeded EXCEPT ![self] = TRUE]
                       ELSE reseeded
        /\ UNCHANGED <<grad3, ret, vis, shuffle>>

\* a noise2D that records the cell it visited in the permutation table
Noise2D_Marking(self, x, y) ==
    /\ ret = NoCall
    /\ ret' = [op |-> "noise2D", self |-> self, x |-> x, y |-> y,
               value |-> noise2D(perm[self], gradP[self], x, y)]
    /\ perm' = [perm EXCEPT ![self][And255(RatFloor(x))] = And255(RatFloor(y))]
    /\ UNCHANGED <<gradP, grad3, seedArg, first, reseeded, vis, shuffle>>

\* a call of noise2D(x, y) on field self, lines 81-115
Noise2D(self, x, y) ==
    /\ ret = NoCall
    /\ ret' = [op |-> "noise2D", self |-> self, x |-> x, y |-> y,
               value |-> noise2D(perm[self], gradP[self], x, y)]
    /\ UNCHANGED <<perm, gradP, grad3, seedArg, first, reseeded, vis, shuffle>>

\* a call of perlin2D(x, y, octaves, persistence, lacunarity), lines 118-134
Perlin2D(self, x, y, octaves, persistence, lacunarity) ==
    /\ ret = NoCall
    /\ ret' = [op |-> "perlin2D", self |-> self, x |-> x, y |-> y,
               octaves |-> octaves, persistence |-> persistence,
               lacunarity |-> lacunarity,
               value |-> perlin2D(perm[self], gradP[self], x, y,
                                  octaves, persistence, lacunarity)]
    /\ UNCHANGED <<perm, gradP, grad3, seedArg, first, reseeded, vis, shuffle>>

\* the caller takes the returned value (generate, lines 410-419)
TakeResult ==
    /\ ret # NoCall
    /\ ret' = NoCall
    /\ UNCHANGED <<perm, gradP, grad3, seedArg, first, reseeded, vis, shuffle>>

\* one field: any seed() argument, a few sample calls
Next ==
    \/ \E v \in SeedValues : Seed(Primary, v)
    \/ \E x \in SpotCoords, y \in SpotCoords : Noise2D(Primary, x, y)
    \/ \E x \in SpotCoords, o \in SpotOctaves, p \in SpotPersistences,
          l \in SpotLacunarities : Perlin2D(Primary, x, x, o, p, l)
    \/ TakeResult

Spec == Init /\ [][Next]_vars

\* two fields, a few seed() arguments and sample calls
NextPair ==
    \/ \E self \in Fields, v \in PairSeedValues : Seed(self, v)
    \/ \E self \in Fields, x \in SpotCoords : Noise2D(self, x, x)
    \/ TakeResult

SpecPair == Init /\ [][NextPair]_vars

\* sampling a constructed field: every coordinate and parameter of the model
NextSample ==
    \/ \E x \in Coords, y \in Coords : Noise2D(Primary, x, y)
    \/ \E pt \in PerlinPoints, o \in Octaves, p \in Persistences,
          l \in Lacunarities : Perlin2D(Primary, pt[1], pt[2], o, p, l)
    \/ TakeResult

SpecSample == InitSample /\ [][NextSample]_vars

\* fractal sums on a field as its constructor left it
InitFractal ==
    \E r \in RandomValues :
        Constructed([f \in Fields |-> IF f = Primary THEN r ELSE SeedValue(0, 0, 0)])

NextFractal ==
    \/ \E pt \in PerlinPoints, o \in Octaves, p \in Persistences,
          l \in Lacunarities : Perlin2D(Primary, pt[1], pt[2], o, p, l)
    \/ TakeResult

SpecFractal == InitFractal /\ [][NextFractal]_vars

(***************************************************************************)
(* PerlinVisualizer, lines 143-533.  this.perlin is field Primary.  vis is *)
(* the record of the visualizer's fields and of its pending timers:        *)
(*   pc            : "constructor" (line 160 reached, generate(true) not   *)
(*                   yet entered), "seed" / "seedHigh" / "sample" (inside  *)
(*                   generate), "idle" (no handler on the stack)           *)
(*   constructed   : new PerlinVisualizer() has returned                   *)
(*   gridSize, scale, octaves, persistence, lacunarity, threshold          *)
(*   currentSeed, noiseGrid                                                *)
(*   timeout       : the timer whose handle the closure of debounce holds  *)
(*                   is pending                                            *)
(*   timers        : number of pending timers set by debouncedGenerate     *)
(*   burst         : changes of the persistence slider that no completed   *)
(*                   generate() of the debounce timer has followed yet     *)
(*   resizeTimeout : the resize timer is pending                           *)
(*   drawn         : how the last draw() ended: "ok", "undefined" (a cell  *)
(*                   it read was missing), "TypeError" (a row was missing) *)
(*   seedCalls     : number of perlin.seed() calls generate has made       *)
(*   readPerm      : the permutation table the last sampling loop read     *)
(*   by            : the caller of the last generate() or draw()           *)
(* noiseGrid holds its length, the length of its rows and the cells whose  *)
(* sample coordinates                                                      *)
(* x / zoomFactor, y / zoomFactor are both in GridCoords.  The canvases,    *)
(* the text contents and the loading class are not modelled.               *)
(***************************************************************************)
ZoomBase == 110

\* the longest burst of changes of the persistence slider
MaxBurst == 2

NoTable == <<>>

SliderIds == {"gridSize", "scale", "octaves", "persistence", "lacunarity", "threshold"}

\* the value attributes of the range inputs of index.html
DefaultValue(id) ==
    CASE id = "gridSize" -> 40   [] id = "scale" -> 50
      [] id = "octaves" -> 4     [] id = "persistence" -> 50
      [] id = "lacunarity" -> 20 [] id = "threshold" -> 0

\* the slider positions an input or touchmove event delivers (within the
\* min and max of index.html)
SliderValues(id) ==
    CASE id = "gridSize" -> {40, 100}  [] id = "scale" -> {50, 80}
      [] id = "octaves" -> {4, 1}      [] id = "persistence" -> {50, 25}
      [] id = "lacunarity" -> {20, 30} [] id = "threshold" -> {0 - 50, 0, 50}

\* values of Math.random() * 65536 at line 152: 12345.7 and 0.5
CurrentSeeds == {SeedValue(0, 12345, 45875), SeedValue(0, 0, 32768)}

\* the assignments of setupControls (lines 277-282) and of updateValue
\* (lines 298-319) for slider id at position numValue
Assign(v, id, numValue) ==
    CASE id = "persistence" -> [v EXCEPT !.persistence = Rat(numValue, 100)]
      [] id = "lacunarity" -> [v EXCEPT !.lacunarity = Rat(numValue, 10)]
      [] id = "threshold" -> [v EXCEPT !.threshold = Rat(numValue, 100)]
      [] OTHER -> [v EXCEPT ![id] = numValue]

\* the cell indices of the model's grid for a grid length and zoom factor
GridCoords == SpotCoords \cup {IntNum(0)}
CellIndices(gridSize, zoomFactor) ==
    {i \in 0..(gridSize - 1) : Rat(i, zoomFactor) \in GridCoords}

EmptyGrid == [size |-> 0, width |-> 0, cells |-> <<>>]

\* the loop of generate, lines 398-421: noiseGrid[y][x] = perlin2D(x /
\* zoomFactor, y / zoomFactor, octaves, persistence, lacunarity)
GridOf(tp, tg, v) ==
    LET zoomFactor == ZoomBase - v.scale
        idx == CellIndices(v.gridSize, zoomFactor)
    IN  [size |-> v.gridSize, width |-> v.gridSize,
         cells |-> [c \in idx \X idx |->
                      perlin2D(tp, tg, Rat(c[2], zoomFactor), Rat(c[1], zoomFactor),
                               v.octaves, v.persistence, v.lacunarity)]]

\* a < b on JavaScript numbers (false when either side is NaN)
RatLess(a, b) ==
    IF IsNumber(a) /\ IsNumber(b) THEN a.n * b.d < b.n * a.d
    ELSE IF a.k = "Infinity" /\ IsNumber(b) THEN a.n < 0
    ELSE IF IsNumber(a) /\ b.k = "Infinity" THEN b.n > 0
    ELSE FALSE

\* a classification that compares the wrong way round
IsSolid_Inverted(value, threshold) ==
    RatLess(RatAdd(Rat(1, 2), threshold), RatDiv(RatAdd(value, IntNum(1)), IntNum(2)))

\* draw, lines 443-449: isSolid = (value + 1) / 2 < 0.5 + threshold
IsSolid(value, threshold) ==
    RatLess(RatDiv(RatAdd(value, IntNum(1)), IntNum(2)), RatAdd(Rat(1, 2), threshold))

\* the write loop of seed() (lines 53-58) after its first upto iterations
WriteSlots(old, new, upto) ==
    [i \in 0..(TableSize - 1) |-> IF i % HalfSize < upto THEN new[i] ELSE old[i]]

\* an event loop that would run a handler while another one is on the stack
StackEmpty_Preempting(v) == v.pc \in {"idle", "seedHigh"}

\* event handlers and timer callbacks start only when no code is running
StackEmpty(v) == v.pc = "idle"

\* a generate that seeds whatever its argument
EnterGenerate_AlwaysSeed(v, newSeed, by) == [v EXCEPT !.pc = "seed", !.by = by]

\* line 398, this.noiseGrid = new Array(this.gridSize): at the sampling loop
AtSampleLoop(v) ==
    [v EXCEPT !.pc = "sample",
              !.noiseGrid = [size |-> v.gridSize, width |-> 0, cells |-> <<>>]]

\* generate(newSeed), lines 387-398: if (newSeed) this.perlin.seed(...)
EnterGenerate(v, newSeed, by) ==
    IF newSeed THEN [v EXCEPT !.pc = "seed", !.by = by]
    ELSE AtSampleLoop([v EXCEPT !.by = by])

\* a debounce that sets a new timer without cancelling the pending one
Debounced_NoClear(v) == [v EXCEPT !.timers = @ + 1, !.timeout = TRUE]

\* the function debounce returns, lines 377-384: clearTimeout(timeout);
\* timeout = setTimeout(...)
Debounced(v) ==
    [v EXCEPT !.timers = (IF v.timeout THEN @ - 1 ELSE @) + 1, !.timeout = TRUE]

\* a page that debounces the grid size slider as well
IsDebounced_GridSize(id) == id \in {"persistence", "gridSize"}

\* line 324: if (id === 'persistence')
IsDebounced(id) == id = "persistence"

\* lines 499-511: the rows and columns drawIsometricGameView samples,
\* Math.floor(index * scaleFactor) for index < isoGridSize
IsoSamples(gridSize) ==
    LET isoGridSize == IF gridSize < 20 THEN gridSize ELSE 20
    IN  {RatFloor(RatMul(IntNum(index), Rat(gridSize, isoGridSize))) :
           index \in 0..(isoGridSize - 1)}

\* draw() and drawIsometricGameView(), lines 431-533: the reads
\* noiseGrid[y][x] for y, x < gridSize and noiseGrid[sampleY][sampleX] for
\* the samples below gridSize (line 513); undefined[x] throws
DrawOutcome(v) ==
    LET reads == (0..(v.gridSize - 1)) \cup
                 {i \in IsoSamples(v.gridSize) : i < v.gridSize}
    IN  IF \E y \in reads : y >= v.noiseGrid.size THEN "TypeError"
        ELSE IF \E x \in reads : x >= v.noiseGrid.width THEN "undefined"
        ELSE "ok"

\* the visualizer at line 160: field constructed, noiseGrid = [], currentSeed
\* drawn, controls read from the page
VisAtGenerate(cs) ==
    [pc |-> "constructor", constructed |-> FALSE,
     gridSize |-> DefaultValue("gridSize"), scale |-> DefaultValue("scale"),
     octaves |-> DefaultValue("octaves"),
     persistence |-> Rat(DefaultValue("persistence"), 100),
     lacunarity |-> Rat(DefaultValue("lacunarity"), 10),
     threshold |-> Rat(DefaultValue("threshold"), 100),
     currentSeed |-> cs, noiseGrid |-> EmptyGrid,
     timeout |-> FALSE, timers |-> 0, burst |-> 0, resizeTimeout |-> FALSE,
     drawn |-> "none",
     seedCalls |-> 0, readPerm |-> NoTable, by |-> "none"]

InitVis ==
    \E r \in RandomValues, cs \in CurrentSeeds :
        /\ FieldsConstructed([f \in Fields |-> IF f = Primary THEN r ELSE SeedValue(0, 0, 0)])
        /\ vis = VisAtGenerate(cs)
        /\ shuffle = NoShuffle

\* line 160: this.generate(true)
ConstructorGenerate ==
    /\ vis.pc = "constructor"
    /\ vis' = EnterGenerate(vis, TRUE, "constructor")
    /\ UNCHANGED <<perm, gradP, grad3, seedArg, first, reseeded, ret, shuffle>>

\* line 394, this.perlin.seed(this.currentSeed): normalisation, shuffle and
\* the first half of the write loop
GenSeedLow ==
    LET p == ShuffledTable[vis.currentSeed]
    IN  /\ vis.pc = "seed"
        /\ perm' = [perm EXCEPT ![Primary] =
                      WriteSlots(@, WritePerm(@, p), HalfSize \div 2)]
        /\ gradP' = [gradP EXCEPT ![Primary] =
                       WriteSlots(@, WriteGradP(@, grad3[Primary], p), HalfSize \div 2)]
        /\ seedArg' = [seedArg EXCEPT ![Primary] = vis.currentSeed]
        /\ vis' = [vis EXCEPT !.pc = "seedHigh", !.seedCalls = @ + 1]
        /\ UNCHANGED <<grad3, first, reseeded, ret, shuffle>>

\* the rest of the write loop; seed() returns
GenSeedHigh ==
    LET p == ShuffledTable[vis.currentSeed]
    IN  /\ vis.pc = "seedHigh"
        /\ perm' = [perm EXCEPT ![Primary] = WritePerm(@, p)]
        /\ gradP' = [gradP EXCEPT ![Primary] = WriteGradP(@, grad3[Primary], p)]
        /\ first' = IF first[Primary] = NoSnapshot
                    THEN [first EXCEPT ![Primary] =
                            [arg |-> vis.currentSeed, perm |-> perm'[Primary],
                             gradP |-> gradP'[Primary]]]
                    ELSE first
        /\ reseeded' = IF first[Primary] # NoSnapshot /\ first[Primary].arg # vis.currentSeed
                       THEN [reseeded EXCEPT ![Primary] = TRUE]
                       ELSE reseeded
        /\ vis' = AtSampleLoop(vis)
        /\ UNCHANGED <<grad3, seedArg, ret, shuffle>>

\* generate from line 399 on: the grid is filled and drawn; the handler (or
\* the constructor) that called generate returns
GenSample ==
    LET grid == GridOf(perm[Primary], gradP[Primary], vis)
    IN  /\ vis.pc = "sample"
        /\ vis' = [vis EXCEPT !.noiseGrid = grid,
                              !.readPerm = perm[Primary],
                              !.drawn = DrawOutcome([vis EXCEPT !.noiseGrid = grid]),
                              !.burst = IF vis.by = "timer" THEN 0 ELSE @,
                              !.pc = "idle", !.constructed = TRUE]
        /\ UNCHANGED <<perm, gradP, grad3, seedArg, first, reseeded, ret, shuffle>>

\* an input or touchmove event on slider id, lines 332-348: updateValue
SliderEvent(id, value) ==
    /\ StackEmpty(vis)
    /\ id = "persistence" => vis.burst < MaxBurst
    /\ vis' = IF IsDebounced(id)
              THEN Debounced([Assign(vis, id, value) EXCEPT
                                !.burst = IF id = "persistence" THEN @ + 1 ELSE @])
              ELSE EnterGenerate(Assign(vis, id, value), FALSE, "event")
    /\ UNCHANGED <<perm, gradP, grad3, seedArg, first, reseeded, ret, shuffle>>

\* a debounce timer that is cancelled instead of run
DebounceFire_Drop ==
    /\ StackEmpty(vis)
    /\ vis.timers > 0
    /\ vis' = [vis EXCEPT !.timers = @ - 1, !.timeout = (@ /\ vis.timers > 1)]
    /\ UNCHANGED <<perm, gradP, grad3, seedArg, first, reseeded, ret, shuffle>>

\* the debounce timer fires, lines 381-383 and 359-361
DebounceFire ==
    /\ StackEmpty(vis)
    /\ vis.timers > 0
    /\ vis' = EnterGenerate([vis EXCEPT !.timers = @ - 1,
                                        !.timeout = (@ /\ vis.timers > 1)],
                            FALSE, "timer")
    /\ UNCHANGED <<perm, gradP, grad3, seedArg, first, reseeded, ret, shuffle>>

\* a resize event, lines 365-371
ResizeEvent ==
    /\ StackEmpty(vis)
    /\ vis' = [vis EXCEPT !.resizeTimeout = TRUE]
    /\ UNCHANGED <<perm, gradP, grad3, seedArg, first, reseeded, ret, shuffle>>

\* the resize timer fires, lines 367-370: setupCanvas(); draw()
ResizeFire ==
    /\ StackEmpty(vis)
    /\ vis.resizeTimeout
    /\ vis' = [vis EXCEPT !.resizeTimeout = FALSE, !.by = "resize",
                          !.drawn = DrawOutcome(vis)]
    /\ UNCHANGED <<perm, gradP, grad3, seedArg, first, reseeded, ret, shuffle>>

NextVis ==
    \/ ConstructorGenerate
    \/ GenSeedLow
    \/ GenSeedHigh
    \/ GenSample
    \/ \E id \in SliderIds : \E value \in SliderValues(id) : SliderEvent(id, value)
    \/ DebounceFire
    \/ ResizeEvent
    \/ ResizeFire

SpecVis == InitVis /\ [][NextVis]_vars

(***************************************************************************)
(* seed() on the primary field, one iteration of the shuffle at a time     *)
(***************************************************************************)
\* lines 25-41 done: the seed normalised, p the identity, i = 255
SeedEntered(v) ==
    [pc |-> "loop", arg |-> v, seed |-> NormalizeSeed(v), p |-> IdentityP,
     i |-> HalfSize - 1, r |-> Undefined]

InitShuffle ==
    \E v \in SeedValues :
        /\ FieldsConstructed([f \in Fields |-> SeedValue(0, 0, 0)])
        /\ vis = NoVisualizer
        /\ shuffle = SeedEntered(v)

\* one iteration of for (let i = 255; i > 0; i--), lines 43-51
ShuffleIterate ==
    LET st == ShuffleStep([p |-> shuffle.p, seed |-> shuffle.seed], shuffle.i)
    IN  /\ shuffle.pc = "loop"
        /\ shuffle.i > 0
        /\ shuffle' = [shuffle EXCEPT !.seed = st.seed, !.p = st.p,
                                      !.r = PickIndex(st.seed, shuffle.i),
                                      !.i = @ - 1]
        /\ UNCHANGED <<perm, gradP, grad3, seedArg, first, reseeded, ret, vis>>

\* the loop is left and the tables are written, lines 53-58; seed() returns
ShuffleWrite ==
    /\ shuffle.pc = "loop"
    /\ shuffle.i = 0
    /\ perm' = [perm EXCEPT ![Primary] = WritePerm(@, shuffle.p)]
    /\ gradP' = [gradP EXCEPT ![Primary] = WriteGradP(@, grad3[Primary], shuffle.p)]
    /\ seedArg' = [seedArg EXCEPT ![Primary] = shuffle.arg]
    /\ first' = IF first[Primary] = NoSnapshot
                THEN [first EXCEPT ![Primary] =
                        [arg |-> shuffle.arg, perm |-> perm'[Primary],
                         gradP |-> gradP'[Primary]]]
                ELSE first
    /\ reseeded' = IF first[Primary] # NoSnapshot /\ first[Primary].arg # shuffle.arg
                   THEN [reseeded EXCEPT ![Primary] = TRUE]
                   ELSE reseeded
    /\ shuffle' = [shuffle EXCEPT !.pc = "done"]
    /\ UNCHANGED <<grad3, ret, vis>>

NextShuffle ==
    \/ ShuffleIterate
    \/ ShuffleWrite

SpecShuffle == InitShuffle /\ [][NextShuffle]_vars

(***************************************************************************)
(* PerlinVisualizer.drawIsometricTile, lines 535-589, and adjustBrightness, *)
(* lines 701-728.  A colour string is the sequence of its tokens: literal  *)
(* text, a run of white space, a decimal number, a pair of hex digits.     *)
(* Here vis is the frame of one call of drawIsometricTile: its arguments,  *)
(* the values Math.random() returns, the three colours and the fillStyle   *)
(* of the three faces in the order they are filled.                        *)
(***************************************************************************)
Lit(text) == [t |-> "lit", s |-> text, n |-> 0]
Num(value) == [t |-> "num", s |-> "", n |-> value]
HexPair(high, low) == [t |-> "hex", s |-> "", n |-> 16 * high + low]
WhiteSpace == [t |-> "ws", s |-> "", n |-> 0]
EndOfString == [t |-> "end", s |-> "", n |-> 0]

\* `rgb(${r}, ${g}, ${b})`, lines 537 and 727
RgbString(r, g, b) ==
    <<Lit("rgb("), Num(r), Lit(","), WhiteSpace, Num(g), Lit(","), WhiteSpace,
      Num(b), Lit(")")>>

\* the template of lines 541-545: a line break and indentation after "rgb(",
\* after every comma and before ")"
RgbTemplateString(r, g, b) ==
    <<Lit("rgb("), WhiteSpace, Num(r), Lit(","), WhiteSpace, Num(g), Lit(","),
      WhiteSpace, Num(b), WhiteSpace, Lit(")")>>

\* '#ffffff', line 561
White == <<Lit("#"), HexPair(15, 15), HexPair(15, 15), HexPair(15, 15)>>

TokenAt(color, i) == IF i \in DOMAIN color THEN color[i] ELSE EndOfString

\* \d+ matches a number token without a sign
IsDigits(tok) == tok.t = "num" /\ tok.n >= 0

\* \s* at position i: the position after an optional run of white space
SkipSpace(color, i) == IF TokenAt(color, i).t = "ws" THEN i + 1 ELSE i

NoMatch == <<>>

\* color.match(/rgb\((\d+),\s*(\d+),\s*(\d+)\)/), line 711: the three
\* groups, or null.  The strings of the program hold "rgb(" at their start
\* only.
RgbMatch(color) ==
    LET g == SkipSpace(color, 4)
        b == SkipSpace(color, g + 2)
    IN  IF /\ TokenAt(color, 1) = Lit("rgb(")
           /\ IsDigits(TokenAt(color, 2))
           /\ TokenAt(color, 3) = Lit(",")
           /\ IsDigits(TokenAt(color, g))
           /\ TokenAt(color, g + 1) = Lit(",")
           /\ IsDigits(TokenAt(color, b))
           /\ TokenAt(color, b + 1) = Lit(")")
        THEN <<color[2].n, color[g].n, color[b].n>>
        ELSE NoMatch

\* Math.max(0, Math.min(255, c + percent)), lines 723-725
ClampChannel(c) == IF c < 0 THEN 0 ELSE IF c > HalfSize - 1 THEN HalfSize - 1 ELSE c

\* adjustRgbBrightness(r, g, b, percent), lines 721-728
adjustRgbBrightness(r, g, b, percent) ==
    RgbString(ClampChannel(r + percent), ClampChannel(g + percent),
              ClampChannel(b + percent))

\* adjustBrightness(color, percent), lines 701-719
adjustBrightness(color, percent) ==
    IF TokenAt(color, 1) = Lit("#")
    THEN adjustRgbBrightness(color[2].n, color[3].n, color[4].n, percent)
    ELSE IF TokenAt(color, 1) = Lit("rgb(") /\ RgbMatch(color) # NoMatch
    THEN LET match == RgbMatch(color)
         IN  adjustRgbBrightness(match[1], match[2], match[3], percent)
    ELSE color

\* Math.min(1, this.persistence * 2), line 540
VariationFactor(persistence) ==
    LET twice == RatMul(persistence, IntNum(2))
    IN  IF RatLess(IntNum(1), twice) THEN IntNum(1) ELSE twice

\* Math.floor(base + normalizedValue * gain + (rnd * width - width / 2) * factor)
Channel(base, normalizedValue, gain, rnd, width, factor) ==
    RatFloor(RatAdd(RatAdd(IntNum(base), RatMul(normalizedValue, IntNum(gain))),
                    RatMul(RatSub(RatMul(rnd, IntNum(width)), Rat(width, 2)), factor)))

\* line 537
WaterColor(normalizedValue) ==
    RgbString(0, Channel(100, normalizedValue, 100, IntNum(0), 0, IntNum(0)),
              Channel(150, normalizedValue, 100, IntNum(0), 0, IntNum(0)))

\* lines 541-545, with the three values rnd of Math.random()
LandColor(normalizedValue, persistence, rnd) ==
    LET factor == VariationFactor(persistence)
    IN  RgbTemplateString(Channel(50, normalizedValue, 100, rnd[1], 20, factor),
                          Channel(100, normalizedValue, 100, rnd[2], 20, factor),
                          Channel(0, normalizedValue, 50, rnd[3], 10, factor))

\* const snowThreshold = 0.8, line 547
SnowThreshold == Rat(4, 5)

\* values of noiseGrid cells, thresholds and values of Math.random() of a tile
TileValues == {Rat(n, 5) : n \in {0 - 5, 0 - 2, 0, 2, 4, 5}}
TileThresholds == {Rat(n, 100) : n \in SliderValues("threshold")}
TilePersistences == {Rat(n, 100) : n \in SliderValues("persistence")}
TileRandoms == {IntNum(0), Rat(1, 2)}

\* drawIsometricGameView at line 529: the call of drawIsometricTile for a
\* cell with this value
TileCall(value, threshold, persistence, rnd) ==
    LET normalizedValue == RatDiv(RatAdd(value, IntNum(1)), IntNum(2))
    IN  [pc |-> "tile", normalizedValue |-> normalizedValue,
         isWater |-> RatLess(normalizedValue, RatAdd(Rat(1, 2), threshold)),
         persistence |-> persistence, rnd |-> rnd,
         topColor |-> NoMatch, leftColor |-> NoMatch, rightColor |-> NoMatch,
         fills |-> <<>>]

InitTile ==
    \E value \in TileValues, threshold \in TileThresholds,
       persistence \in TilePersistences,
       rnd \in [1..3 -> TileRandoms] :
        /\ FieldsConstructed([f \in Fields |-> SeedValue(0, 0, 0)])
        /\ shuffle = NoShuffle
        /\ vis = TileCall(value, threshold, persistence, rnd)

\* lines 537-569: the colours of the three faces
TileColors ==
    LET water == WaterColor(vis.normalizedValue)
        land == LandColor(vis.normalizedValue, vis.persistence, vis.rnd)
        top == IF vis.isWater THEN water
               ELSE IF RatLess(SnowThreshold, vis.normalizedValue) THEN White
               ELSE land
    IN  /\ vis.pc = "tile"
        /\ vis' = [vis EXCEPT !.pc = "fill", !.topColor = top,
                              !.leftColor = adjustBrightness(top, 0 - 20),
                              !.rightColor = adjustBrightness(top, 0 - 40)]
        /\ UNCHANGED <<perm, gradP, grad3, seedArg, first, reseeded, ret, shuffle>>

\* lines 571-599: the right, the left and the top face are filled
TileFaces ==
    /\ vis.pc = "fill"
    /\ vis' = [vis EXCEPT !.pc = "drawn",
                          !.fills = <<vis.rightColor, vis.leftColor, vis.topColor>>]
    /\ UNCHANGED <<perm, gradP, grad3, seedArg, first, reseeded, ret, shuffle>>

NextTile ==
    \/ TileColors
    \/ TileFaces

SpecTile == InitTile /\ [][NextTile]_vars

(***************************************************************************)
(* Properties                                                              *)
(***************************************************************************)
LowHalf == 0..(HalfSize - 1)
Slots == 0..(TableSize - 1)

\* a 512-slot table of integers 0..255 whose low half is a permutation
ValidTable(t) ==
    /\ \A i \in Slots : t[i] \in LowHalf
    /\ {t[i] : i \in LowHalf} = LowHalf

\* a number in [-1, 1]
InUnitRange(a) == IsNumber(a) /\ 0 - a.d <= a.n /\ a.n <= a.d

Sampled(op) == ret # NoCall /\ ret.op = op

\* C1: after seed(v), for any real v, perm is 512 integers in 0..255 and
\* perm[0..255] is a permutation of 0..255.
C1_PermIsPermutation == \A f \in Fields : ValidTable(perm[f])

\* C2: in every state after construction and any seed() calls,
\* perm[i] = perm[i + 256] and gradP[i] = gradP[i + 256] for i in 0..255.
C2_HalvesIdentical ==
    \A f \in Fields : \A i \in LowHalf :
        perm[f][i] = perm[f][i + HalfSize] /\ gradP[f][i] = gradP[f][i + HalfSize]

\* C2 witness: the field was reseeded with a second value, and its table is
\* not constant
C2_Witness ==
    /\ reseeded[Primary]
    /\ \E i \in LowHalf : perm[Primary][i] # perm[Primary][0]

\* C3: in every state, every gradP[i] is the palette vector
\* grad3[perm[i] mod 8], hence one of the 8 fixed directions.
C3_GradientFromPalette ==
    \A f \in Fields : \A i \in Slots :
        /\ perm[f][i] \in LowHalf
        /\ gradP[f][i] = grad3[f][perm[f][i] % PaletteSize]
        /\ gradP[f][i] \in {grad3[f][k] : k \in DOMAIN grad3[f]}

\* C4: two independently constructed fields that are seeded with the same
\* value hold identical perm and gradP tables and return identical
\* noise2D(x, y).
C4_Determinism ==
    \A f \in Fields, g \in Fields :
        seedArg[f] = seedArg[g] =>
            /\ perm[f] = perm[g]
            /\ gradP[f] = gradP[g]
            /\ \A x \in SpotCoords, y \in SpotCoords :
                 noise2D(perm[f], gradP[f], x, y) = noise2D(perm[g], gradP[g], x, y)

\* C4 witness: the two fields were first seeded with different values (so
\* held different tables), and have now both been seeded with the same one
C4_Witness ==
    /\ first[1] # NoSnapshot /\ first[2] # NoSnapshot
    /\ first[1].arg # first[2].arg
    /\ first[1].perm # first[2].perm
    /\ seedArg[1] = seedArg[2]
    /\ reseeded[1] \/ reseeded[2]

\* C5: the tables seed(v) produces depend only on v: after seed(A); seed(B);
\* seed(A) every perm and gradP slot is as it was after the first seed(A).
C5_ReseedIndependence ==
    \A f \in Fields :
        (first[f] # NoSnapshot /\ seedArg[f] = first[f].arg) =>
            (perm[f] = first[f].perm /\ gradP[f] = first[f].gradP)

\* C5 witness: seed(A), then seed(B) with another table, then seed(A) again
C5_Witness ==
    /\ first[Primary] # NoSnapshot
    /\ reseeded[Primary]
    /\ seedArg[Primary] = first[Primary].arg
    /\ ValidTable(perm[Primary])

\* C6: noise2D and perlin2D leave perm, gradP and grad3 unchanged, so the
\* same call made again on the tables it leaves returns the same value.
C6_SamplingIsPure ==
    [][(ret = NoCall /\ ret' # NoCall) =>
          /\ perm' = perm /\ gradP' = gradP /\ grad3' = grad3
          /\ ret'.op = "noise2D" =>
               ret'.value = noise2D(perm'[ret'.self], gradP'[ret'.self], ret'.x, ret'.y)
          /\ ret'.op = "perlin2D" =>
               ret'.value = perlin2D(perm'[ret'.self], gradP'[ret'.self], ret'.x, ret'.y,
                                     ret'.octaves, ret'.persistence, ret'.lacunarity)]_vars

\* C6 witness: a fractal sample returned a non-zero number after a reseed
C6_Witness ==
    /\ Sampled("perlin2D")
    /\ reseeded[Primary]
    /\ IsNumber(ret.value) /\ ret.value.n # 0

\* C7: on every validly seeded table and at every finite (x, y), noise2D(x, y)
\* lies in [-1, 1], although four palette gradients are the diagonals.
C7_Noise2DInRange ==
    (Sampled("noise2D") /\ ValidTable(perm[ret.self])) => InUnitRange(ret.value)

\* C7 witness: a sample at a cell centre that reaches the bound 1
C7_Witness ==
    /\ Sampled("noise2D")
    /\ ValidTable(perm[ret.self])
    /\ ret.value = IntNum(1)

\* C8: for every (x, y), octave count >= 1, persistence in (0, 1) and
\* lacunarity >= 1, perlin2D(x, y, octaves, persistence, lacunarity) lies in
\* [-1, 1].
C8_FractalInRange ==
    ( /\ Sampled("perlin2D")
      /\ ret.octaves >= 1
      /\ ret.persistence.n > 0 /\ ret.persistence.n < ret.persistence.d
      /\ RatLeq(IntNum(1), ret.lacunarity) ) => InUnitRange(ret.value)

\* C9: the normalisation of perlin2D keeps the result in [-1, 1] for every
\* octave count and every persistence, also >= 1, zero or negative (stated
\* on validly seeded tables, where it already fails).
C9_NormalizedAnyPersistence ==
    ( /\ Sampled("perlin2D")
      /\ ValidTable(perm[ret.self])
      /\ ret.octaves >= 1 ) => InUnitRange(ret.value)

\* C10: perlin2D(x, y, 1, p, l) equals noise2D(x, y) for every persistence p
\* and lacunarity l (the same number, or the same TypeError).
C10_SingleOctave ==
    (Sampled("perlin2D") /\ ret.octaves = 1) =>
        ret.value = noise2D(perm[ret.self], gradP[ret.self], ret.x, ret.y)

\* C10 witness: one octave with persistence 2 and lacunarity 3 returned a
\* non-zero number
C10_Witness ==
    /\ Sampled("perlin2D")
    /\ ret.octaves = 1
    /\ ret.persistence = IntNum(2)
    /\ ret.lacunarity = IntNum(3)
    /\ IsNumber(ret.value) /\ ret.value.n # 0

\* C11: for every seed value passed to seed() and every later noise2D or
\* perlin2D call with finite coordinates, the call returns a value: no
\* exception is raised.
C11_NeverFails == ret # NoCall => ret.value # TypeError

\* the amplitudes 1 + persistence + ... + persistence^(octaves - 1)
RECURSIVE AmplitudeSum(_, _)
AmplitudeSum(octaves, persistence) ==
    IF octaves <= 0 THEN IntNum(0)
    ELSE RatAdd(IntNum(1), RatMul(persistence, AmplitudeSum(octaves - 1, persistence)))

NormalizedInteger(v) ==
    LET n == IF v.hi = 0 /\ v.lo = 0 /\ v.frac > 0
             THEN [hi |-> 0, lo |-> v.frac]
             ELSE [hi |-> v.hi, lo |-> v.lo]
    IN  IF n.hi = 0 /\ 1 <= n.lo /\ n.lo <= 255 THEN [hi |-> 0, lo |-> 257 * n.lo]
        ELSE IF n.hi = 0 /\ n.lo < 256 THEN [hi |-> 0, lo |-> BitOr(n.lo, n.lo * 256)]
        ELSE n

\* C13: the tables depend on the seed argument only through its normalised
\* integer: whenever the value now seeded and the first value seeded have
\* the same normalised integer (0.5 and 32768, 12345.7 and 12345, 255 and
\* 257 * 255), the tables are those of the first seeding; and the code's
\* normalisation of every model seed is that integer, 257 * k for k in 1..255.
C13_SeedNormalization ==
    /\ \A k \in 1..255 : NormalizeSeed(SeedValue(0, k, 0)) = [hi |-> 0, lo |-> 257 * k]
    /\ \A f \in Fields :
         /\ NormalizeSeed(seedArg[f]) = NormalizedInteger(seedArg[f])
         /\ (first[f] # NoSnapshot
               /\ NormalizedInteger(seedArg[f]) = NormalizedInteger(first[f].arg)) =>
                (perm[f] = first[f].perm /\ gradP[f] = first[f].gradP)

\* C13 witness: seed(255), another table in between, then seed(65535)
C13_Witness ==
    /\ first[Primary] # NoSnapshot
    /\ first[Primary].arg = SeedValue(0, 255, 0)
    /\ seedArg[Primary] = SeedValue(0, 65535, 0)
    /\ reseeded[Primary]
    /\ ValidTable(perm[Primary])

\* the table a shuffle leaves when every pick index is 0
IsRotation(t) == \A i \in LowHalf : t[i] = (i + 1) % HalfSize

\* the seed argument floors (after the rescaling of 0 < v < 1) below 256
FlooredBelow256(v) == ScaleAndFloor(v).hi = 0 /\ ScaleAndFloor(v).lo < HalfSize

\* C14: for every seed whose floored value is below 256, 0 and the tiny
\* fractions that floor to 0 included, the fold keeps the shuffle from being
\* degenerate: the LCG is not stuck at a constant and the table is not the
\* rotation perm[i] = (i + 1) mod 256.
C14_FoldGuardsLowSeeds ==
    \A f \in Fields :
        FlooredBelow256(seedArg[f]) =>
            /\ LcgNext(NormalizeSeed(seedArg[f])) # NormalizeSeed(seedArg[f])
            /\ ~IsRotation(perm[f])

\* C15: a constructed field is always in the seeded state: after the
\* constructor and after every seed(), all 512 slots of perm and of gradP
\* are populated with valid entries.
C15_AlwaysSeeded ==
    \A f \in Fields : \A i \in Slots :
        perm[f][i] # Undefined /\ gradP[f][i] # UndefinedVec

IsInteger(a) == IsNumber(a) /\ a.d = 1

\* the sample at (x, y) as the cell on the left of x, resp. below y,
\* evaluates it at its far edge
FromLeftCell(tp, tg, x, y) ==
    noise2DInCell(tp, tg, And255(RatFloor(x) - 1), And255(RatFloor(y)),
                  IntNum(1), RatSub(y, IntNum(RatFloor(y))))
FromLowerCell(tp, tg, x, y) ==
    noise2DInCell(tp, tg, And255(RatFloor(x)), And255(RatFloor(y) - 1),
                  RatSub(x, IntNum(RatFloor(x))), IntNum(1))

\* C17: for every seed, noise2D has no jump at integer coordinates: at every
\* point of a cell boundary the sample is the value the neighbouring cell
\* reaches at that boundary (the shared corners hash to the same gradients
\* from either cell, also across the wrap from cell 255 to cell 0), and the
\* fade weight is 0 at the near edge and 1 at the far edge.
C17_ContinuousAtBoundaries ==
    /\ fade(IntNum(0)) = IntNum(0) /\ fade(IntNum(1)) = IntNum(1)
    /\ \A f \in Fields : \A b \in {c \in Coords : IsInteger(c)}, c \in Coords :
         /\ noise2D(perm[f], gradP[f], b, c) = FromLeftCell(perm[f], gradP[f], b, c)
         /\ noise2D(perm[f], gradP[f], c, b) = FromLowerCell(perm[f], gradP[f], c, b)

\* a permutation table written completely by one seed() call
WholeTable(t) == \E v \in AllSeedValues : t = WritePerm(t, ShuffledTable[v])

\* C16: no sample ever reads a table in which some slots hold the new seed's
\* values and others the previous seed's: in every interleaving of the
\* visualizer's handlers and timers, seed() has run to completion when the
\* sampling loop executes.
C16_SeedingAtomic ==
    /\ vis.readPerm # NoTable => WholeTable(vis.readPerm)
    /\ vis.pc = "sample" =>
         /\ perm[Primary] = WritePerm(perm[Primary], ShuffledTable[seedArg[Primary]])
         /\ gradP[Primary] =
              WriteGradP(gradP[Primary], grad3[Primary], ShuffledTable[seedArg[Primary]])

\* C16 witness: after the constructor's seed(currentSeed), a timer-driven
\* generate has sampled the table that seed() wrote
C16_Witness ==
    /\ vis.pc = "idle"
    /\ vis.by = "timer"
    /\ first[Primary] # NoSnapshot
    /\ first[Primary].arg = vis.currentSeed
    /\ vis.readPerm = first[Primary].perm

\* C18: generate calls perlin.seed only for the constructor's generate(true):
\* once the visualizer is constructed, no slider event, debounce timer or
\* resize changes perm, gradP or currentSeed, and seed() has been called once.
C18_SeedsOnce ==
    /\ [](vis.constructed => vis.seedCalls = 1)
    /\ [][vis.constructed =>
            /\ perm' = perm /\ gradP' = gradP
            /\ vis'.currentSeed = vis.currentSeed
            /\ vis'.seedCalls = vis.seedCalls]_vars

\* C18 witness: slider events, a debounce timer and a resize event have
\* happened, and the tables are those of seed(currentSeed)
C18_Witness ==
    /\ vis.pc = "idle"
    /\ vis.by = "timer"
    /\ vis.resizeTimeout
    /\ vis.gridSize # DefaultValue("gridSize")
    /\ vis.seedCalls = 1
    /\ perm[Primary] = WritePerm(perm[Primary], ShuffledTable[vis.currentSeed])

\* C19: whenever no handler is running and no debounce timer is pending,
\* noiseGrid is the grid computed from the current gridSize, scale, octaves,
\* persistence and lacunarity (rebuilt by the handler itself, or for
\* persistence by the debounce timer).
C19_GridFollowsParameters ==
    (vis.pc = "idle" /\ ~vis.timeout) =>
        vis.noiseGrid = GridOf(perm[Primary], gradP[Primary], vis)

\* C19 witness: the debounce timer has rebuilt the grid for a changed
\* persistence, and the grid is not all zero
C19_Witness ==
    /\ vis.pc = "idle"
    /\ ~vis.timeout
    /\ vis.by = "timer"
    /\ vis.persistence # Rat(DefaultValue("persistence"), 100)
    /\ \E c \in DOMAIN vis.noiseGrid.cells : vis.noiseGrid.cells[c] # IntNum(0)

\* water levels of the slider: -0.50, -0.25, 0, 0.25, 0.50
Thresholds == {Rat(n, 100) : n \in {0 - 50, 0 - 25, 0, 25, 50}}

NonNegativeSeed == shuffle.seed.hi > 0 \/ shuffle.seed.lo >= 0

C21_FisherYates ==
    /\ [](shuffle.pc # "none" /\ NonNegativeSeed /\ shuffle.i < HalfSize - 1
            => shuffle.r \in 0..(shuffle.i + 1))
    /\ [](shuffle.pc = "loop" /\ shuffle.i = HalfSize - 1
            => \A k \in 0..(HalfSize - 1) : shuffle.p[k] = k)
    /\ [](shuffle.pc = "done"
            => \A k \in 0..(HalfSize - 1) : perm[Primary][k] = shuffle.p[k])
    /\ [][shuffle.pc = "loop" /\ shuffle'.pc = "loop" /\ NonNegativeSeed
            => /\ shuffle'.p[shuffle.i] = shuffle.p[shuffle'.r]
               /\ shuffle'.p[shuffle'.r] = shuffle.p[shuffle.i]
               /\ \A k \in 0..(HalfSize - 1) :
                     k \notin {shuffle.i, shuffle'.r} => shuffle'.p[k] = shuffle.p[k]
               /\ \A k \in (shuffle.i + 1)..(HalfSize - 1) :
                     shuffle'.p[k] = shuffle.p[k]]_vars

\* a finished shuffle with a non-negative seed that moved the last position
C21_Witness ==
    /\ shuffle.pc = "done"
    /\ NonNegativeSeed
    /\ shuffle.arg = SeedValue(0, 12345, 45875)
    /\ shuffle.p[HalfSize - 1] # HalfSize - 1
    /\ shuffle.r \in 0..1

\* a^k for a natural k
RECURSIVE RatPow(_, _)
RatPow(a, k) == IF k = 0 THEN IntNum(1) ELSE RatMul(a, RatPow(a, k - 1))

\* the sum over k < n of persistence^k * noise2D(x * lacunarity^k, y * lacunarity^k)
RECURSIVE OctaveSum(_, _, _, _, _, _, _)
OctaveSum(tp, tg, x, y, n, persistence, lacunarity) ==
    IF n = 0 THEN IntNum(0)
    ELSE RatAdd(OctaveSum(tp, tg, x, y, n - 1, persistence, lacunarity),
                RatMul(RatPow(persistence, n - 1),
                       noise2D(tp, tg, RatMul(x, RatPow(lacunarity, n - 1)),
                               RatMul(y, RatPow(lacunarity, n - 1)))))

\* the sum over k < n of persistence^k
RECURSIVE PowerSum(_, _)
PowerSum(n, persistence) ==
    IF n = 0 THEN IntNum(0)
    ELSE RatAdd(PowerSum(n - 1, persistence), RatPow(persistence, n - 1))

\* C22: for octaves n >= 1, perlin2D(x, y, n, p, l) is the sum over k < n of
\* p^k * noise2D(x * l^k, y * l^k), divided by the sum over k < n of p^k.
C22_FractalSum ==
    (Sampled("perlin2D") /\ ret.octaves >= 1) =>
        ret.value = RatDiv(OctaveSum(perm[ret.self], gradP[ret.self], ret.x, ret.y,
                                     ret.octaves, ret.persistence, ret.lacunarity),
                           PowerSum(ret.octaves, ret.persistence))

\* C22 witness: three octaves with persistence 1/2 and lacunarity 3 gave a
\* non-zero number
C22_Witness ==
    /\ Sampled("perlin2D")
    /\ ret.octaves = 3
    /\ ret.persistence = Rat(1, 2)
    /\ ret.lacunarity = IntNum(3)
    /\ IsNumber(ret.value) /\ ret.value.n # 0

\* 6t^5 - 15t^4 + 10t^3, term by term
FadePolynomial(t) ==
    RatAdd(RatSub(RatMul(IntNum(6), RatPow(t, 5)), RatMul(IntNum(15), RatPow(t, 4))),
           RatMul(IntNum(10), RatPow(t, 3)))

\* arguments of fade in eighths, from -1 to 2
FadePoints == {Rat(n, 8) : n \in (0 - 8)..16}

\* the contribution of the corner (X + a, Y + b) of the cell: its gradient
\* times the offset (fx - a, fy - b)
CornerDot(tp, tg, X, Y, a, b, fx, fy) ==
    LET g == tg[And255(tp[tp[X + a] + Y + b])]
    IN  RatAdd(RatMul(IntNum(g[1]), RatSub(fx, IntNum(a))),
               RatMul(IntNum(g[2]), RatSub(fy, IntNum(b))))

\* the bilinear blend of the four corners, first along x with weight u and
\* then along y with weight v
BlendAlongXFirst(c00, c10, c01, c11, u, v) ==
    LET one == IntNum(1)
        n0 == RatAdd(RatMul(RatSub(one, u), c00), RatMul(u, c10))
        n1 == RatAdd(RatMul(RatSub(one, u), c01), RatMul(u, c11))
    IN  RatAdd(RatMul(RatSub(one, v), n0), RatMul(v, n1))

\* C23: noise2D(x, y) is the bilinear blend of the four corner contributions
\* gradient(X + a, Y + b) . (fx - a, fy - b) with the weights u = fade(fx) and
\* v = fade(fy), where fade(t) = 6t^5 - 15t^4 + 10t^3; the code nests the
\* blend along y first, which equals the blend nested along x first.
C23_BilinearBlend ==
    Sampled("noise2D") =>
        LET tp == perm[ret.self]
            tg == gradP[ret.self]
            X == And255(RatFloor(ret.x))
            Y == And255(RatFloor(ret.y))
            fx == RatSub(ret.x, IntNum(RatFloor(ret.x)))
            fy == RatSub(ret.y, IntNum(RatFloor(ret.y)))
        IN  /\ ret.value =
                 BlendAlongXFirst(CornerDot(tp, tg, X, Y, 0, 0, fx, fy),
                                  CornerDot(tp, tg, X, Y, 1, 0, fx, fy),
                                  CornerDot(tp, tg, X, Y, 0, 1, fx, fy),
                                  CornerDot(tp, tg, X, Y, 1, 1, fx, fy),
                                  FadePolynomial(fx), FadePolynomial(fy))
            /\ \A t \in FadePoints : fade(t) = FadePolynomial(t)

\* C23 witness: a non-zero sample at a point whose two weights differ
C23_Witness ==
    /\ Sampled("noise2D")
    /\ ret.x = Rat(1, 2)
    /\ ret.y = IntNum(1)
    /\ IsNumber(ret.value) /\ ret.value.n # 0

\* whole numbers of periods by which a coordinate is shifted
Periods == {0 - 1, 0, 1}

\* C24: the lattice wraps around: the cell index is the floor of the
\* coordinate masked to 0..255, for negative coordinates too (a floor of -1
\* is cell 255), and noise2D(x + 256 k, y + 256 m) = noise2D(x, y) for all
\* integers k and m.
C24_Period256 ==
    Sampled("noise2D") =>
        /\ And255(RatFloor(ret.x)) \in LowHalf
        /\ And255(RatFloor(ret.y)) \in LowHalf
        /\ RatFloor(ret.x) = 0 - 1 => And255(RatFloor(ret.x)) = HalfSize - 1
        /\ \A k \in Periods, m \in Periods :
              noise2D(perm[ret.self], gradP[ret.self],
                      RatAdd(ret.x, IntNum(HalfSize * k)),
                      RatAdd(ret.y, IntNum(HalfSize * m))) = ret.value

\* C24 witness: a non-zero sample in the cell 255 that a negative x selects
C24_Witness ==
    /\ Sampled("noise2D")
    /\ ret.x = Rat(0 - 1, 2)
    /\ ret.y = Rat(1, 2)
    /\ IsNumber(ret.value) /\ ret.value.n # 0

\* the three channels a colour string denotes
ChannelsOf(color) ==
    IF TokenAt(color, 1) = Lit("#") THEN <<color[2].n, color[3].n, color[4].n>>
    ELSE LET nums == SelectSeq(color, LAMBDA tok : tok.t = "num")
         IN  <<nums[1].n, nums[2].n, nums[3].n>>

\* the colour with every channel lowered by amount and clamped to 0..255
Darkened(color, amount) ==
    LET c == ChannelsOf(color)
    IN  RgbString(ClampChannel(c[1] - amount), ClampChannel(c[2] - amount),
                  ClampChannel(c[3] - amount))

\* C26: for every isometric tile the left face is filled with the top colour
\* lowered by 20 per channel and the right face with the top colour lowered by
\* 40 (clamped to 0..255): adjustBrightness returns the adjusted colour for
\* every string the tile code produces, never its input.
C26_FacesDarker ==
    vis.pc = "drawn" =>
        /\ vis.fills[2] = Darkened(vis.fills[3], 20)
        /\ vis.fills[1] = Darkened(vis.fills[3], 40)

\* every read of noise2D in cell (X, Y) stays inside the tables
ReadsInRange(tp, tg, X, Y) ==
    LET at == PermIndices(tp, X, Y)
    IN  /\ \A i \in 1..6 : at[i] \in Slots
        /\ \A i \in 3..6 : /\ HashIndex(tp[at[i]]) \in LowHalf
                           /\ HashIndex(tp[at[i]]) \in DOMAIN tg

\* C27: with a valid permutation table the reads of noise2D never leave the
\* tables: X, X + 1, perm[X] + Y, perm[X] + Y + 1, perm[X + 1] + Y and
\* perm[X + 1] + Y + 1 are in 0..511 and every perm[...] & 255 is in 0..255,
\* in the cell of every sampled point and in every cell of the first and the
\* last row.
C27_ReadsInsideTables ==
    (Sampled("noise2D") /\ ValidTable(perm[ret.self])) =>
        /\ ReadsInRange(perm[ret.self], gradP[ret.self],
                        CellIndex(ret.x), CellIndex(ret.y))
        /\ \A X \in LowHalf : \A Y \in {0, HalfSize - 1} :
              ReadsInRange(perm[ret.self], gradP[ret.self], X, Y)

\* C27 witness: a sample in the cell (255, 255), whose reads reach X + 1 = 256
\* and an index of perm above 255
C27_Witness ==
    /\ Sampled("noise2D")
    /\ ValidTable(perm[ret.self])
    /\ CellIndex(ret.x) = HalfSize - 1
    /\ CellIndex(ret.y) = HalfSize - 1
    /\ PermIndices(perm[ret.self], CellIndex(ret.x), CellIndex(ret.y))[6] >= HalfSize
    /\ IsNumber(ret.value)

\* the integer lattice points among the sampled coordinates
LatticePoints == {c \in Coords : c.d = 1}

\* C28: at every integer lattice point noise2D(i, j) is 0, for every seed:
\* whatever seed() call built the tables of the field, every lattice point
\* samples to the number 0.
C28_LatticeZero ==
    \A i \in LatticePoints, j \in LatticePoints :
        noise2D(perm[Primary], gradP[Primary], i, j) = IntNum(0)

\* C29: the persistence slider is debounced: at most one debounce timer is
\* pending at any time; a change during a burst cancels the pending timer and
\* runs no generate(); when the timer fires no timer is left, so that
\* generate() runs once for the burst, after its last change and with the
\* persistence that change set.
C29_DebouncedBurst ==
    /\ [](vis.pc # "none" => vis.timers <= 1 /\ (vis.timeout <=> vis.timers = 1))
    /\ [](vis.pc # "none" => (vis.burst > 0 => vis.pc # "idle" \/ vis.timers = 1))
    /\ [][vis'.burst > vis.burst
            => vis'.timers = 1 /\ vis'.pc = "idle" /\ vis'.noiseGrid = vis.noiseGrid]_vars
    /\ [][vis'.timers < vis.timers
            => /\ vis'.timers = 0
               /\ vis'.pc = "sample" /\ vis'.by = "timer"
               /\ vis'.burst = vis.burst
               /\ vis'.persistence = vis.persistence]_vars
    /\ [][vis.pc = "sample" /\ vis.by = "timer" /\ vis'.pc = "idle"
            => /\ vis'.burst = 0 /\ vis'.timers = 0
               /\ vis'.noiseGrid = GridOf(perm[Primary], gradP[Primary], vis)
               /\ vis'.persistence = vis.persistence]_vars

\* C29 witness: the timer has fired after a burst of two changes that left the
\* persistence at 0.25; generate() is running and no timer is pending
C29_Witness ==
    /\ vis.pc = "sample"
    /\ vis.by = "timer"
    /\ vis.burst = 2
    /\ vis.timers = 0
    /\ vis.persistence = Rat(25, 100)

\* C30: whenever draw() runs, from generate or from the resize timer,
\* noiseGrid has exactly gridSize rows of gridSize cells, so that every read
\* noiseGrid[y][x] of draw and noiseGrid[sampleY][sampleX] of
\* drawIsometricGameView is in bounds and defined; between handlers, when the
\* resize timer may fire, the grid has the size of the grid slider.
C30_GridMatchesSize ==
    /\ vis.pc # "none" => vis.drawn \in {"none", "ok"}
    /\ vis.pc = "idle" =>
         /\ vis.noiseGrid.size = vis.gridSize
         /\ vis.noiseGrid.width = vis.gridSize
         /\ \A i \in IsoSamples(vis.gridSize) : i \in 0..(vis.noiseGrid.size - 1)
         /\ \A c \in DOMAIN vis.noiseGrid.cells :
               /\ c[1] \in 0..(vis.gridSize - 1)
               /\ c[2] \in 0..(vis.gridSize - 1)

\* C30 witness: the resize timer has drawn a grid of 100 rows that an earlier
\* change of the grid slider had built
C30_Witness ==
    /\ vis.pc = "idle"
    /\ vis.by = "resize"
    /\ vis.drawn = "ok"
    /\ vis.gridSize = 100
    /\ vis.noiseGrid.size = 100

====
